---- MODULE Spec2Model ----
(***************************************************************************)
(* Model of src/app.py: the per-client conversation memory                 *)
(* (conversation_histories) and the Flask handlers that read and write it: *)
(* /api/chat, /api/upload and /api/stt, together with                      *)
(* gerar_resposta_agente and resumir_texto.                                *)
(*                                                                         *)
(* Flask's development server (app.run) serves each request on its own     *)
(* thread.  A handler is cut into steps at its accesses to the shared      *)
(* lists: one list operation (append, clear, read) is one atomic step, the *)
(* purely local code around it belongs to the same step.                   *)
(*                                                                         *)
(* Texts are TLA+ strings.  Accented letters of the Portuguese literals    *)
(* are written without the accent.                                         *)
(***************************************************************************)
EXTENDS Integers, Sequences, FiniteSets, TLC

VARIABLES
    client,                  \* "OpenAI" when OPENAI_API_KEY is set, else "None"
    conversation_histories,  \* defaultdict(list): client id -> list of turns
    pc,                      \* per thread: where its handler stands
    loc,                     \* per thread: the handler's locals and response
    prev,                    \* per thread: summary of the request before
    started                  \* number of requests dispatched so far

vars == <<client, conversation_histories, pc, loc, prev, started>>

----------------------------------------------------------------------------
(* Bounds of the model *)

\* requests dispatched in the concurrent specification
MaxRequests == 3
\* requests dispatched in the one-thread specification
MaxSeqRequests == 3
\* chat requests dispatched in the long-conversation specification
MaxWindowRequests == 6

Threads == {"t1", "t2"}

----------------------------------------------------------------------------
(* Text helpers: str.strip, str.lower, os.path.splitext, bytes.decode *)

Whitespace == {" ", "\n", "\t"}

At(s, i) == SubSeq(s, i, i)

RECURSIVE LStrip(_)
LStrip(s) ==
    IF s = "" THEN ""
    ELSE IF At(s, 1) \in Whitespace THEN LStrip(SubSeq(s, 2, Len(s)))
    ELSE s

RECURSIVE RStrip(_)
RStrip(s) ==
    IF s = "" THEN ""
    ELSE IF At(s, Len(s)) \in Whitespace THEN RStrip(SubSeq(s, 1, Len(s) - 1))
    ELSE s

\* str.strip()
Strip(s) == RStrip(LStrip(s))

\* variant: the message is tested without strip()
IsBlankNoStrip(s) == s = ""

\* the falsy test `not s.strip()`
IsBlank(s) == Strip(s) = ""

UpperLetters == "ABCDEFGHIJKLMNOPQRSTUVWXYZ"
LowerLetters == "abcdefghijklmnopqrstuvwxyz"

\* the lower-case letter of each upper-case letter
ToLower ==
    [c \in {At(UpperLetters, i) : i \in 1..Len(UpperLetters)} |->
        At(LowerLetters, CHOOSE i \in 1..Len(UpperLetters) : At(UpperLetters, i) = c)]

LowerChar(c) == IF c \in DOMAIN ToLower THEN ToLower[c] ELSE c

RECURSIVE Lower(_)
\* str.lower()
Lower(s) ==
    IF s = "" THEN "" ELSE LowerChar(At(s, 1)) \o Lower(SubSeq(s, 2, Len(s)))

\* os.path.splitext(nome)[1] for a name without directory separators: the
\* text from the last dot on, unless every character before that dot is a dot
SplitExt(nome) ==
    LET dots == {i \in 1..Len(nome) : At(nome, i) = "."}
    IN  IF dots = {} THEN ""
        ELSE LET last == CHOOSE i \in dots : \A j \in dots : j <= i
             IN  IF \A j \in 1..(last - 1) : At(nome, j) = "."
                 THEN ""
                 ELSE SubSeq(nome, last, Len(nome))

\* One undecodable byte of an uploaded file
BadByte == "<FF>"

RECURSIVE Decode(_)
\* bytes.decode("utf-8", errors="ignore"): the payload is a sequence of units,
\* each one decodable character or BadByte; undecodable units are dropped
Decode(bytes) ==
    IF bytes = <<>> THEN ""
    ELSE (IF Head(bytes) = BadByte THEN "" ELSE Head(bytes)) \o Decode(Tail(bytes))

\* page.extract_text() returned None
NoText == "<None>"

RECURSIVE JoinPages(_)
\* "\n\n".join(page.extract_text() or "" for page in reader.pages)
JoinPages(pages) ==
    IF pages = <<>> THEN ""
    ELSE LET first == IF Head(pages) = NoText THEN "" ELSE Head(pages)
         IN  IF Len(pages) = 1 THEN first
             ELSE first \o "\n\n" \o JoinPages(Tail(pages))

\* dict.get(key, default) on a parsed body or form
Get(data, key, default) == IF key \in DOMAIN data THEN data[key] ELSE default

----------------------------------------------------------------------------
(* Fixed texts of the program *)

NoKeyReply ==
    "Erro: a chave da OpenAI nao esta configurada.\nDefina a variavel de ambiente OPENAI_API_KEY antes de rodar o servidor."
NoMessageYetReply == "Pode repetir? Ainda nao recebi nenhuma mensagem na conversa."
ClarifyReply == "Pode repetir a pergunta? Nao recebi nenhum texto."
ChatFailure(e) == "Tive um problema ao falar com o modelo de IA.\nDetalhe tecnico: " \o e
NoKeySummary ==
    "Nao consegui falar com a IA para resumir o texto (OpenAI nao configurada)."
SummaryFailure(e) == "Nao consegui resumir o texto por um erro tecnico: " \o e
NoExtractSummary == "Nao foi possivel extrair texto deste arquivo."
UnsupportedError == "Tipo de arquivo nao suportado. Use .txt ou .pdf."
NoFileError == "Nenhum arquivo enviado"
ProcessingError(e) == "Erro ao processar arquivo: " \o e
NoAudioError == "Nenhum audio enviado"
NotConfiguredError == "OpenAI nao configurada"
TranscribeFailure(e) == "Falha ao transcrever audio: " \o e

TextExtensions == {".txt", ".md", ".csv", ".json", ".log"}

\* history[-10:]
WindowTurns == 10
\* conteudo[:1200]
PreviewChars == 1200

----------------------------------------------------------------------------
(* The conversation memory *)

Turn(role, content) == [role |-> role, content |-> content]

\* The list stored under a key; a key never looked up holds no list yet, and
\* the first lookup (defaultdict(list)) stores an empty one
History(h, cid) == IF cid \in DOMAIN h THEN h[cid] ELSE <<>>

\* conversation_histories after the list of cid has become log
Store(h, cid, log) ==
    [k \in DOMAIN h \cup {cid} |-> IF k = cid THEN log ELSE h[k]]

\* variant: history.insert(0, turn)
ListInsertFirst(log, turn) == <<turn>> \o log

\* history.append(turn)
ListAppend(log, turn) == Append(log, turn)

\* variant: the upload keeps the turns that were there
ListClearKeeps(log) == log

\* history.clear()
ListClear(log) == <<>>

\* seq[-n:]
LastN(seq, n) ==
    LET from == IF Len(seq) - n < 0 THEN 0 ELSE Len(seq) - n
    IN  SubSeq(seq, from + 1, Len(seq))

\* seq[:n] of a string
FirstChars(s, n) == SubSeq(s, 1, IF Len(s) < n THEN Len(s) ELSE n)

\* variant: history[:10], the first turns instead of the last
ContextoFirstTurns(history) ==
    SubSeq(history, 1, IF Len(history) < WindowTurns THEN Len(history) ELSE WindowTurns)

\* contexto = history[-10:]
Contexto(history) == LastN(history, WindowTurns)

\* variant: the message is stored stripped
UserTurnStripped(mensagem) == Turn("user", Strip(mensagem))

\* variant: the message is stored under the assistant role
UserTurnWrongRole(mensagem) == Turn("assistant", mensagem)

\* {"role": "user", "content": mensagem}
UserTurn(mensagem) == Turn("user", mensagem)

\* {"role": "assistant", "content": resposta}
AssistantTurn(resposta) == Turn("assistant", resposta)

\* variant: the empty history is not tested for
HistoryNeverEmpty(history) == FALSE

\* `not history`
HistoryIsEmpty(history) == history = <<>>

\* the system turn that upload() stores
DocumentTurn(nome, conteudo) ==
    Turn("system",
         "O usuario enviou um arquivo chamado '" \o nome \o "'. "
            \o "Abaixo esta o conteudo completo do arquivo:\n\n" \o conteudo)

----------------------------------------------------------------------------
(* Thread-local state of a handler *)

NoResponse == [status |-> 0, body |-> [none |-> ""]]

Json(status, body) == [status |-> status, body |-> body]

NoLocals ==
    [route |-> "none", client_id |-> "", text |-> "", nome |-> "",
     conteudo |-> "", reply |-> "", contexto |-> <<>>, called |-> FALSE,
     foundEmpty |-> FALSE, cleared |-> FALSE, response |-> NoResponse]

\* what is kept of a request once the thread takes the next one
Summary(l) ==
    [route |-> l.route, client_id |-> l.client_id, text |-> l.text,
     reply |-> l.reply, foundEmpty |-> l.foundEmpty,
     status |-> l.response.status]

\* result of an external call: the text it returned, or the exception raised
Returned(text) == [ok |-> TRUE, content |-> text]
Raised(e) == [ok |-> FALSE, content |-> e]

Init ==
    /\ client \in {"None", "OpenAI"}
    /\ conversation_histories = <<>>
    /\ pc = [t \in Threads |-> "idle"]
    /\ loc = [t \in Threads |-> NoLocals]
    /\ prev = [t \in Threads |-> Summary(NoLocals)]
    /\ started = 0

Dispatch(t) ==
    /\ pc[t] = "idle"
    /\ prev' = [prev EXCEPT ![t] = Summary(loc[t])]
    /\ started' = started + 1
    /\ UNCHANGED client

----------------------------------------------------------------------------
(* POST /api/chat *)

\* chat(), up to and including the append of the user turn
chat(t, data) ==
    LET mensagem == Get(data, "message", "")
        client_id == Get(data, "client_id", "anonimo")
        mine == [NoLocals EXCEPT !.route = "chat", !.client_id = client_id,
                    !.text = mensagem,
                    !.foundEmpty = (History(conversation_histories, client_id) = <<>>)]
    IN  /\ Dispatch(t)
        /\ IF IsBlank(mensagem)
           THEN /\ loc' = [loc EXCEPT ![t] =
                      [mine EXCEPT !.response = Json(200, [reply |-> ClarifyReply])]]
                /\ UNCHANGED <<pc, conversation_histories>>
           ELSE /\ conversation_histories' =
                      Store(conversation_histories, client_id,
                            ListAppend(History(conversation_histories, client_id),
                                       UserTurn(mensagem)))
                /\ loc' = [loc EXCEPT ![t] = mine]
                /\ pc' = [pc EXCEPT ![t] = "gen"]

\* gerar_resposta_agente(), up to the call of the model
gerar_resposta_agente(t) ==
    LET client_id == loc[t].client_id
        history == History(conversation_histories, client_id)
    IN  /\ pc[t] = "gen"
        /\ IF client = "None"
           THEN /\ loc' = [loc EXCEPT ![t].reply = NoKeyReply]
                /\ pc' = [pc EXCEPT ![t] = "append"]
                /\ UNCHANGED conversation_histories
           ELSE /\ conversation_histories' =
                      Store(conversation_histories, client_id, history)
                /\ IF HistoryIsEmpty(history)
                   THEN /\ loc' = [loc EXCEPT ![t].reply = NoMessageYetReply]
                        /\ pc' = [pc EXCEPT ![t] = "append"]
                   ELSE /\ loc' = [loc EXCEPT ![t].contexto = Contexto(history),
                                              ![t].called = TRUE]
                        /\ pc' = [pc EXCEPT ![t] = "wait"]
        /\ UNCHANGED <<client, prev, started>>

\* texto.strip(), or the except branch
ModelReply(out) == IF out.ok THEN Strip(out.content) ELSE ChatFailure(out.content)

\* client.chat.completions.create(...) returns or raises
ModelReturns(t, out) ==
    /\ pc[t] = "wait"
    /\ loc' = [loc EXCEPT ![t].reply = ModelReply(out)]
    /\ pc' = [pc EXCEPT ![t] = "append"]
    /\ UNCHANGED <<client, conversation_histories, prev, started>>

\* body of the 200 answer of chat() and of stt_conversa()
ReplyBody(l) ==
    IF l.route = "chat" THEN [reply |-> l.reply]
    ELSE [user_text |-> l.text, reply_text |-> l.reply]

\* history.append({"role": "assistant", ...}) and the answer
AppendReply(t) ==
    LET client_id == loc[t].client_id
    IN  /\ pc[t] = "append"
        /\ conversation_histories' =
              Store(conversation_histories, client_id,
                    ListAppend(History(conversation_histories, client_id),
                               AssistantTurn(loc[t].reply)))
        /\ loc' = [loc EXCEPT ![t].response = Json(200, ReplyBody(loc[t]))]
        /\ pc' = [pc EXCEPT ![t] = "idle"]
        /\ UNCHANGED <<client, prev, started>>

----------------------------------------------------------------------------
(* POST /api/upload *)

\* variant: a file of any other extension is read as text
ExtractAnyAsText(arquivo) ==
    LET nome == IF arquivo.filename = "" THEN "arquivo" ELSE arquivo.filename
        ext == Lower(SplitExt(nome))
    IN  IF ext = ".pdf"
        THEN IF arquivo.corrupt
             THEN [outcome |-> "raised", conteudo |-> "EOF marker not found"]
             ELSE [outcome |-> "text", conteudo |-> JoinPages(arquivo.pages)]
        ELSE [outcome |-> "text", conteudo |-> Decode(arquivo.bytes)]

\* the try block of upload(): the text read from the file.  An uploaded file
\* is [filename, bytes] or, for a PDF document, [filename, pages, corrupt];
\* PdfReader raises on a corrupt document
Extract(arquivo) ==
    LET nome == IF arquivo.filename = "" THEN "arquivo" ELSE arquivo.filename
        ext == Lower(SplitExt(nome))
    IN  IF ext \in TextExtensions
        THEN [outcome |-> "text", conteudo |-> Decode(arquivo.bytes)]
        ELSE IF ext = ".pdf"
        THEN IF arquivo.corrupt
             THEN [outcome |-> "raised", conteudo |-> "EOF marker not found"]
             ELSE [outcome |-> "text", conteudo |-> JoinPages(arquivo.pages)]
        ELSE [outcome |-> "unsupported", conteudo |-> ""]

\* resumir_texto(): the summary, and whether the model was called for it
Resumo(out) ==
    IF client = "None" THEN NoKeySummary
    ELSE IF out.ok THEN Strip(out.content) ELSE SummaryFailure(out.content)

\* upload(), up to and including resumir_texto(conteudo)
upload(t, files, form, out) ==
    LET client_id == Get(form, "client_id", "anonimo")
        mine == [NoLocals EXCEPT !.route = "upload",
                    !.foundEmpty = (History(conversation_histories, client_id) = <<>>)]
    IN  /\ Dispatch(t)
        /\ UNCHANGED conversation_histories
        /\ IF "file" \notin DOMAIN files
           THEN /\ loc' = [loc EXCEPT ![t] =
                      [mine EXCEPT !.response = Json(400, [error |-> NoFileError])]]
                /\ UNCHANGED pc
           ELSE LET arquivo == files["file"]
                    nome == IF arquivo.filename = "" THEN "arquivo" ELSE arquivo.filename
                    got == Extract(arquivo)
                    named == [mine EXCEPT !.client_id = client_id, !.nome = nome]
                IN  IF got.outcome = "unsupported"
                    THEN /\ loc' = [loc EXCEPT ![t] =
                               [named EXCEPT !.response =
                                   Json(400, [error |-> UnsupportedError])]]
                         /\ UNCHANGED pc
                    ELSE IF got.outcome = "raised"
                    THEN /\ loc' = [loc EXCEPT ![t] =
                               [named EXCEPT !.response =
                                   Json(500, [error |-> ProcessingError(got.conteudo)])]]
                         /\ UNCHANGED pc
                    ELSE IF IsBlank(got.conteudo)
                    THEN /\ loc' = [loc EXCEPT ![t] =
                               [named EXCEPT !.response =
                                   Json(200, [filename |-> nome, text |-> "",
                                              preview |-> "",
                                              summary |-> NoExtractSummary])]]
                         /\ UNCHANGED pc
                    ELSE /\ loc' = [loc EXCEPT ![t] =
                               [named EXCEPT !.conteudo = got.conteudo,
                                             !.reply = Resumo(out),
                                             !.called = (client # "None")]]
                         /\ pc' = [pc EXCEPT ![t] = "clear"]

\* a chat or stt request whose user turn is in the list of cid
InFlight(u, cid) ==
    /\ pc[u] \in {"gen", "wait", "append"}
    /\ loc[u].client_id = cid

\* history = conversation_histories[client_id]; history.clear()
UploadClear(t) ==
    LET client_id == loc[t].client_id
    IN  /\ pc[t] = "clear"
        /\ conversation_histories' =
              Store(conversation_histories, client_id,
                    ListClear(History(conversation_histories, client_id)))
        /\ loc' = [u \in Threads |->
                      IF InFlight(u, client_id)
                      THEN [loc[u] EXCEPT !.cleared = TRUE] ELSE loc[u]]
        /\ pc' = [pc EXCEPT ![t] = "store"]
        /\ UNCHANGED <<client, prev, started>>

\* history.append({"role": "system", ...}) and the answer
UploadAppend(t) ==
    LET client_id == loc[t].client_id
        l == loc[t]
    IN  /\ pc[t] = "store"
        /\ conversation_histories' =
              Store(conversation_histories, client_id,
                    ListAppend(History(conversation_histories, client_id),
                               DocumentTurn(l.nome, l.conteudo)))
        /\ loc' = [loc EXCEPT ![t].response =
                      Json(200, [filename |-> l.nome, text |-> l.conteudo,
                                 preview |-> FirstChars(l.conteudo, PreviewChars),
                                 summary |-> l.reply])]
        /\ pc' = [pc EXCEPT ![t] = "idle"]
        /\ UNCHANGED <<client, prev, started>>

----------------------------------------------------------------------------
(* POST /api/stt *)

\* stt_conversa(), up to and including the append of the transcribed text;
\* out is what client.audio.transcriptions.create returns or raises
stt_conversa(t, files, form, out) ==
    LET client_id == Get(form, "client_id", "anonimo")
        mine == [NoLocals EXCEPT !.route = "stt", !.client_id = client_id,
                    !.foundEmpty = (History(conversation_histories, client_id) = <<>>)]
    IN  /\ Dispatch(t)
        /\ IF client = "None"
           THEN /\ loc' = [loc EXCEPT ![t] =
                      [mine EXCEPT !.response = Json(500, [error |-> NotConfiguredError])]]
                /\ UNCHANGED <<pc, conversation_histories>>
           ELSE IF "audio" \notin DOMAIN files
           THEN /\ loc' = [loc EXCEPT ![t] =
                      [mine EXCEPT !.response = Json(400, [error |-> NoAudioError])]]
                /\ UNCHANGED <<pc, conversation_histories>>
           ELSE IF ~out.ok
           THEN /\ loc' = [loc EXCEPT ![t] =
                      [mine EXCEPT !.response =
                          Json(500, [error |-> TranscribeFailure(out.content)])]]
                /\ UNCHANGED <<pc, conversation_histories>>
           ELSE LET user_text == Strip(out.content)
                IN  /\ conversation_histories' =
                          Store(conversation_histories, client_id,
                                ListAppend(History(conversation_histories, client_id),
                                           UserTurn(user_text)))
                    /\ loc' = [loc EXCEPT ![t] =
                                  [mine EXCEPT !.text = user_text]]
                    /\ pc' = [pc EXCEPT ![t] = "gen"]

----------------------------------------------------------------------------
(* Requests and external outcomes the specifications draw from *)

NoFields == [k \in {} |-> ""]

ChatBodies ==
    { [message |-> "oi", client_id |-> "u1"],
      [message |-> " \n", client_id |-> "u1"],
      [message |-> " e ai?\t"],
      [client_id |-> "u1"] }

ModelOutcomes == { Returned(" Ola, Paulo!\n"), Returned(" \n"), Raised("timeout") }

NotaTxt == [filename |-> "nota.TXT", bytes |-> <<"a", BadByte, " ", "b">>]
VazioMd == [filename |-> "vazio.md", bytes |-> <<" ", BadByte, "\n">>]
SetupExe == [filename |-> "setup.exe", bytes |-> <<"M", "Z">>]
DotTxt == [filename |-> ".txt", bytes |-> <<"x">>]
RelPdf == [filename |-> "rel.pdf", pages |-> <<"p1", NoText, "p3">>, corrupt |-> FALSE]
BadPdf == [filename |-> "bad.pdf", pages |-> <<>>, corrupt |-> TRUE]

UploadFiles ==
    {NoFields} \cup
    { [file |-> f] : f \in {NotaTxt, VazioMd, SetupExe, DotTxt, RelPdf, BadPdf} }

Forms == { [client_id |-> "u1"], NoFields }

SummaryOutcomes == { Returned(" resumo \n"), Raised("quota") }

AudioFiles == { [audio |-> "fala.webm"], NoFields }

TranscriptionOutcomes == { Returned(" oi Bruner\n"), Returned(" "), Raised("formato") }

----------------------------------------------------------------------------
(* Concurrent specification: two request threads *)

ConcChatBodies == { [message |-> "oi", client_id |-> "u1"],
                    [message |-> " \n", client_id |-> "u1"],
                    [message |-> " e ai?\t"] }
ConcUploadFiles == { [file |-> f] : f \in {NotaTxt, VazioMd, SetupExe, BadPdf} }
ConcForms == { [client_id |-> "u1"] }

Next ==
    \E t \in Threads :
        \/ /\ started < MaxRequests
           /\ \E data \in ConcChatBodies : chat(t, data)
        \/ /\ started < MaxRequests
           /\ \E files \in ConcUploadFiles, form \in ConcForms :
                 upload(t, files, form, Returned(" resumo \n"))
        \/ /\ started < MaxRequests
           /\ \E out \in {Returned(" "), Raised("formato")} :
                 stt_conversa(t, [audio |-> "fala.webm"], [client_id |-> "u1"], out)
        \/ gerar_resposta_agente(t)
        \/ \E out \in {Returned(" Ola, Paulo!\n")} : ModelReturns(t, out)
        \/ AppendReply(t)
        \/ UploadClear(t)
        \/ UploadAppend(t)

Spec == Init /\ [][Next]_vars

----------------------------------------------------------------------------
(* One-thread specification: requests are served one after the other *)

NextSeq ==
    \/ /\ started < MaxSeqRequests
       /\ \E data \in ChatBodies : chat("t1", data)
    \/ /\ started < MaxSeqRequests
       /\ \E files \in UploadFiles, form \in Forms, out \in SummaryOutcomes :
             upload("t1", files, form, out)
    \/ /\ started < MaxSeqRequests
       /\ \E files \in AudioFiles, form \in Forms, out \in TranscriptionOutcomes :
             stt_conversa("t1", files, form, out)
    \/ gerar_resposta_agente("t1")
    \/ \E out \in ModelOutcomes : ModelReturns("t1", out)
    \/ AppendReply("t1")
    \/ UploadClear("t1")
    \/ UploadAppend("t1")

SpecSeq == Init /\ [][NextSeq]_vars

----------------------------------------------------------------------------
(* Long-conversation specification: one client chats, one request at a time *)

WindowChatBodies == { [message |-> "oi", client_id |-> "u1"],
                      [message |-> "e ai?", client_id |-> "u1"] }
WindowOutcomes == { Returned("sim"), Returned(" nao ") }

NextWindow ==
    \/ /\ started < MaxWindowRequests
       /\ \E data \in WindowChatBodies : chat("t1", data)
    \/ gerar_resposta_agente("t1")
    \/ \E out \in WindowOutcomes : ModelReturns("t1", out)
    \/ AppendReply("t1")

SpecWindow == Init /\ [][NextWindow]_vars

----------------------------------------------------------------------------
(* Vocabulary of the properties *)

\* s is empty or holds nothing but whitespace
OnlyWhitespace(s) == \A i \in 1..Len(s) : At(s, i) \in {" ", "\n", "\t"}

\* sub occurs in s as a contiguous piece
Contains(s, sub) ==
    \E i \in 0..(Len(s) - Len(sub)) : SubSeq(s, i + 1, i + Len(sub)) = sub

\* a is an initial part of b
IsPrefix(a, b) == Len(a) <= Len(b) /\ SubSeq(b, 1, Len(a)) = a

\* s ends with suffix
EndsWith(s, suffix) ==
    Len(suffix) <= Len(s) /\ SubSeq(s, Len(s) - Len(suffix) + 1, Len(s)) = suffix

\* thread t has answered a chat request whose message was not blank
AnsweredChat(t) ==
    /\ pc[t] = "idle"
    /\ loc[t].route = "chat"
    /\ ~OnlyWhitespace(loc[t].text)

----------------------------------------------------------------------------
(* C1 *)

\* C1: a POST /api/chat whose message is empty or only whitespace answers
\* exactly the fixed clarification reply, calls no model, and leaves every
\* client's log as it was (no key is created, no turn appended).
C1_BlankChatLeavesLogs ==
    [][\A t \in Threads, data \in ChatBodies :
          (OnlyWhitespace(Get(data, "message", "")) /\ chat(t, data))
          => /\ loc'[t].response =
                   [status |-> 200,
                    body |-> [reply |-> "Pode repetir a pergunta? Nao recebi nenhum texto."]]
             /\ ~loc'[t].called
             /\ pc'[t] = "idle"
             /\ conversation_histories' = conversation_histories]_vars

\* C1 witness: a whitespace-only message was answered with the clarification
\* reply while the client already had turns in its log
C1_Witness ==
    /\ pc["t1"] = "idle"
    /\ loc["t1"].route = "chat"
    /\ loc["t1"].text = " \n"
    /\ loc["t1"].response.body = [reply |-> ClarifyReply]
    /\ Len(History(conversation_histories, loc["t1"].client_id)) >= 2

----------------------------------------------------------------------------
(* C2 *)

\* C2: the context handed to the model for a log of length L is exactly the
\* last min(L, 10) turns of the log in their order, and computing it leaves
\* the log unchanged.
C2_ContextIsLastTenTurns ==
    [][\A t \in Threads :
          (gerar_resposta_agente(t) /\ pc'[t] = "wait")
          => LET log == History(conversation_histories, loc[t].client_id)
                 L == Len(log)
                 n == IF L <= 10 THEN L ELSE 10
                 ctx == loc'[t].contexto
             IN  /\ Len(ctx) = n
                 /\ \A i \in 1..n : ctx[i] = log[L - n + i]
                 /\ conversation_histories' = conversation_histories]_vars

\* C2 witness: the model is being called for a log of more than 10 turns
C2_Witness ==
    /\ pc["t1"] = "wait"
    /\ Len(History(conversation_histories, "u1")) = 11
    /\ Len(loc["t1"].contexto) = 10
    /\ loc["t1"].contexto[10] = conversation_histories["u1"][11]

----------------------------------------------------------------------------
(* C3 *)

\* C3: two chat requests of one client with non-blank messages m1 then m2,
\* served one after the other on a log that starts empty: the model is called
\* for the second with the context [user m1, assistant r1, user m2], and the
\* log ends as [user m1, assistant r1, user m2, assistant r2].
C3_SecondChatSeesFirstExchange ==
    \A t \in Threads :
        ( /\ AnsweredChat(t)
          /\ prev[t].route = "chat"
          /\ ~OnlyWhitespace(prev[t].text)
          /\ prev[t].foundEmpty
          /\ prev[t].client_id = loc[t].client_id )
        => LET m1 == [role |-> "user", content |-> prev[t].text]
               r1 == [role |-> "assistant", content |-> prev[t].reply]
               m2 == [role |-> "user", content |-> loc[t].text]
               r2 == [role |-> "assistant", content |-> loc[t].reply]
           IN  /\ History(conversation_histories, loc[t].client_id) = <<m1, r1, m2, r2>>
               /\ loc[t].response = [status |-> 200, body |-> [reply |-> loc[t].reply]]
               /\ client = "OpenAI" =>
                     loc[t].called /\ loc[t].contexto = <<m1, r1, m2>>

\* C3 witness: the second of two chats has been answered by the model
C3_Witness ==
    /\ AnsweredChat("t1")
    /\ prev["t1"].route = "chat"
    /\ ~OnlyWhitespace(prev["t1"].text)
    /\ prev["t1"].foundEmpty
    /\ prev["t1"].client_id = loc["t1"].client_id
    /\ loc["t1"].called
    /\ Len(loc["t1"].contexto) = 3

----------------------------------------------------------------------------
(* C4 *)

\* C4 as stated: a non-blank chat message sent while the client's log is
\* empty is answered with the fixed "no message yet" reply and no model call.
C4_EmptyLogChatGetsFixedReply ==
    \A t \in Threads :
        (AnsweredChat(t) /\ loc[t].foundEmpty)
        => /\ loc[t].response.body =
                 [reply |-> "Pode repetir? Ainda nao recebi nenhuma mensagem na conversa."]
           /\ ~loc[t].called

\* C4 amended: a client id never seen maps to an empty log, to which a
\* non-blank chat message first appends its user turn; with the API key set,
\* the reply generation answers the fixed "no message yet" reply without a
\* model call exactly when the log it reads is empty, and calls the model
\* otherwise; a chat request therefore gets the fixed reply only when an
\* upload's clear emptied the log after the chat appended its user turn.
C4_FixedReplyOnlyForEmptyLog ==
    [][/\ \A t \in Threads, data \in ChatBodies :
             ( /\ ~OnlyWhitespace(Get(data, "message", ""))
               /\ Get(data, "client_id", "anonimo") \notin DOMAIN conversation_histories
               /\ chat(t, data) )
             => /\ loc'[t].foundEmpty
                /\ conversation_histories'[Get(data, "client_id", "anonimo")] =
                      <<[role |-> "user", content |-> data.message]>>
       /\ \A t \in Threads :
             (gerar_resposta_agente(t) /\ client = "OpenAI")
             => IF History(conversation_histories, loc[t].client_id) = <<>>
                THEN /\ loc'[t].reply =
                           "Pode repetir? Ainda nao recebi nenhuma mensagem na conversa."
                     /\ ~loc'[t].called
                     /\ pc'[t] = "append"
                ELSE /\ loc'[t].called
                     /\ pc'[t] = "wait"
       /\ \A t \in Threads :
             ( /\ AppendReply(t)
               /\ loc[t].route = "chat"
               /\ client = "OpenAI"
               /\ ~loc[t].cleared )
             => loc[t].called]_vars

\* C4 witness: a chat request was answered with the fixed "no message yet"
\* reply, no model called, after an upload cleared the log under it
C4_Witness ==
    \E t \in Threads :
        /\ AnsweredChat(t)
        /\ loc[t].response.body = [reply |-> NoMessageYetReply]
        /\ ~loc[t].called
        /\ loc[t].cleared
        /\ client = "OpenAI"

----------------------------------------------------------------------------
(* C5 *)

\* C5: once an upload that extracted non-blank text C has been served with no
\* other request running, the client's log is exactly one turn, of role
\* system, whose content contains C; whatever was in the log before is gone.
C5_UploadLeavesOnlyDocument ==
    \A t \in Threads :
        ( /\ pc[t] = "idle"
          /\ loc[t].route = "upload"
          /\ loc[t].response.status = 200
          /\ ~OnlyWhitespace(loc[t].response.body.text) )
        => LET log == History(conversation_histories, loc[t].client_id)
           IN  /\ Len(log) = 1
               /\ log[1].role = "system"
               /\ Contains(log[1].content, loc[t].response.body.text)

\* C5 witness: a text file was stored over a log that held a chat exchange
C5_Witness ==
    /\ pc["t1"] = "idle"
    /\ loc["t1"].route = "upload"
    /\ loc["t1"].response.status = 200
    /\ loc["t1"].response.body.text = "a b"
    /\ prev["t1"].route = "chat"
    /\ ~OnlyWhitespace(prev["t1"].text)
    /\ prev["t1"].client_id = loc["t1"].client_id

----------------------------------------------------------------------------
(* C6 *)

\* C6: an upload whose file name carries an unsupported extension (.exe) is
\* answered 400 with an error body; no log is cleared or appended to and no
\* summary is asked of the model.
C6_UnsupportedUploadLeavesLogs ==
    [][\A files \in UploadFiles :
          ("file" \in DOMAIN files /\ EndsWith(files.file.filename, ".exe"))
          => \A t \in Threads, form \in Forms, out \in SummaryOutcomes :
                (loc'[t].nome = files.file.filename /\ upload(t, files, form, out))
                => /\ loc'[t].response.status = 400
                   /\ DOMAIN loc'[t].response.body = {"error"}
                   /\ ~loc'[t].called
                   /\ pc'[t] = "idle"
                   /\ conversation_histories' = conversation_histories]_vars

\* C6 witness: setup.exe was refused while the client had a log
C6_Witness ==
    /\ pc["t1"] = "idle"
    /\ loc["t1"].route = "upload"
    /\ loc["t1"].nome = "setup.exe"
    /\ loc["t1"].response.status = 400
    /\ History(conversation_histories, "u1") # <<>>

----------------------------------------------------------------------------
(* C7 *)

\* C7: in every reachable state every user or assistant turn of every log has
\* non-empty content.
C7_SpokenTurnsAreNonEmpty ==
    \A cid \in DOMAIN conversation_histories :
        \A i \in 1..Len(conversation_histories[cid]) :
            conversation_histories[cid][i].role \in {"user", "assistant"}
            => conversation_histories[cid][i].content # ""

----------------------------------------------------------------------------
(* C8 *)

SystemTurns(log) == {i \in 1..Len(log) : log[i].role = "system"}

\* C8: in every reachable state each client's log holds at most one
\* system-role turn, also when two uploads of one client interleave.
C8_AtMostOneSystemTurn ==
    \A cid \in DOMAIN conversation_histories :
        Cardinality(SystemTurns(conversation_histories[cid])) <= 1

----------------------------------------------------------------------------
(* C9 *)

\* C9: a log loses turns only through the clear step of a successful upload:
\* every other step of every request (chat, stt, an upload that is refused,
\* fails or extracts blank text) leaves each log a prefix of what it becomes,
\* so none takes a log from non-empty back to empty.
C9_OnlyClearRemovesTurns ==
    [][\A cid \in DOMAIN conversation_histories \cup DOMAIN conversation_histories' :
          \/ IsPrefix(History(conversation_histories, cid),
                      History(conversation_histories', cid))
          \/ \E t \in Threads :
                /\ UploadClear(t)
                /\ loc[t].client_id = cid
                /\ loc[t].route = "upload"
                /\ ~OnlyWhitespace(loc[t].conteudo)]_vars

\* C9 witness: a chat was answered on a log that was not empty when it came,
\* and the turns that were there are still in front of its own
C9_Witness ==
    \E t \in Threads :
        /\ AnsweredChat(t)
        /\ ~loc[t].foundEmpty
        /\ ~loc[t].cleared
        /\ Len(History(conversation_histories, loc[t].client_id)) >= 3

----------------------------------------------------------------------------
(* C10 *)

\* the log holds an assistant turn and no user turn at all
Orphaned(log) ==
    /\ \E i \in 1..Len(log) : log[i].role = "assistant"
    /\ \A i \in 1..Len(log) : log[i].role # "user"

\* C10: a log comes to hold an assistant turn without any user turn only
\* through the race of the claim: the reply of a chat or stt request is
\* appended after an upload's clear removed the user turn that request had
\* appended.  That the race can happen is C10_Witness.
C10_OrphanReplyOnlyByRace ==
    [][\A cid \in DOMAIN conversation_histories' :
          ( /\ ~Orphaned(History(conversation_histories, cid))
            /\ Orphaned(conversation_histories'[cid]) )
          => \E t \in Threads :
                /\ AppendReply(t)
                /\ loc[t].client_id = cid
                /\ loc[t].cleared]_vars

\* C10 witness: a chat appended its user turn, an upload cleared the log, and
\* the chat's reply was appended afterwards: the log holds the assistant turn
\* and not the user turn
C10_Witness ==
    \E t \in Threads :
        LET log == History(conversation_histories, loc[t].client_id)
        IN  /\ AnsweredChat(t)
            /\ loc[t].cleared
            /\ log # <<>>
            /\ log[Len(log)] = [role |-> "assistant", content |-> loc[t].reply]
            /\ \A i \in 1..Len(log) : log[i] # [role |-> "user", content |-> loc[t].text]

====
